---- MODULE Spec2Model ----
(***************************************************************************)
(* MCPClient (src/client.py): a Tk GUI thread drives a worker asyncio loop *)
(* that owns one MCP ClientSession.  SessionManager bridges calling        *)
(* contexts to the session under a threading.Lock; MCPClient.process_query *)
(* alternates language-model calls and tool calls; on_closing closes the   *)
(* session on the worker loop, stops the loop and joins its thread.        *)
(*                                                                         *)
(* Threads of the model: the main/GUI thread, the worker loop thread (one  *)
(* task runs at a time, callbacks are taken from a FIFO ready queue), and  *)
(* foreign callers: contexts on another loop that call run_in_session and  *)
(* so take its run_coroutine_threadsafe branch.                            *)
(***************************************************************************)
EXTENDS Integers, Sequences, FiniteSets, TLC

\* Bounds of the model.
NumQueries == 2      \* Send presses, one send_message task each
NumLoop == 2         \* tasks of the owning loop, one run_in_session call each
NumForeign == 1      \* foreign contexts, one run_in_session call each
MaxBlocks == 2       \* content blocks in one model response
MaxConnects == 3     \* initialize_session invocations (SpecConnect)
MaxCloses == 2       \* SessionManager.close invocations (SpecClose)

VARIABLES
    session,      \* SessionManager.session: 0 is None, n the n-th ClientSession
    stdio,        \* SessionManager.stdio/write: 0 is None, n the n-th transport
    exit_stack,   \* SessionManager.exit_stack: 0 is None, n the n-th AsyncExitStack
    sm_loop,      \* SessionManager._loop: "none" or "worker"
    lock,         \* SessionManager._lock: Free or the context holding it
    entered,      \* contexts entered on each AsyncExitStack, in order
    ready,        \* worker loop: FIFO of callbacks (call_soon / call_soon_threadsafe)
    running,      \* worker loop thread: the task it is executing, or Idle
    mainpc,       \* main(): position of the main thread
    status,       \* MCPClient.status_var
    script,       \* server_script_path given to connect_to_server (NoScript before)
    connects,     \* initialize_session invocations so far
    initpc,       \* initialize_session coroutine: position
    initres,      \* outcome of the last initialize_session: "none", "ok", "error"
    qpc,          \* send_message/process_query task: position
    messages,     \* process_query: the messages list
    final_text,   \* process_query: the final_text list
    resp,         \* process_query: response.content being iterated (first response)
    idx,          \* process_query: index of the next block of resp
    last,         \* process_query: content of the most recent model response
    err,          \* exception that ended process_query: "none" or its kind
    modelCalls,   \* anthropic.messages.create calls made, per task
    toolCalls,    \* call_tool invocations started, per task
    calls,        \* call_tool invocations started, in order: the block each is for
    lpc,          \* task of the owning loop calling run_in_session: position
    fpc,          \* foreign caller: position inside run_in_session
    fut,          \* concurrent future of run_coroutine_threadsafe, per foreign caller
    ftask,        \* marshaled task on the worker loop, per foreign caller
    cancelled,    \* Task.cancel() delivered to the marshaled task
    op,           \* Session operation of each task: "none", "sent", "ok", "err"
    closepc,      \* SessionManager.close coroutine: position
    closeres,     \* outcome of the last close: "none", "ok", "error"
    closes,       \* close invocations so far
    exiting,      \* context whose __aexit__ aclose() awaits, or "none"
    stopping,     \* loop.stop() has run on the worker loop
    released,     \* contexts released from each AsyncExitStack, in order
    ranOn         \* loops on which a Session operation or close has executed

smvars == <<session, stdio, exit_stack, sm_loop, entered>>
loopvars == <<ready, running>>
mainvars == <<mainpc, status, script>>
initvars == <<connects, initpc, initres>>
qvars == <<qpc, messages, final_text, resp, idx, last, err, modelCalls,
           toolCalls, calls>>
fvars == <<lpc, fpc, fut, ftask, cancelled>>
closevars == <<closepc, closeres, closes, exiting, stopping, released>>
vars == <<smvars, lock, loopvars, mainvars, initvars, qvars, fvars, op,
          closevars, ranOn>>

Q(i) == <<"q", i>>
F(i) == <<"f", i>>
QTasks == {Q(i) : i \in 1..NumQueries}
FTasks == {F(i) : i \in 1..NumForeign}
L(i) == <<"l", i>>
LTasks == {L(i) : i \in 1..NumLoop}
InitTask == <<"init", 0>>
CloseTask == <<"close", 0>>
Free == <<"free", 0>>
Idle == <<"idle", 0>>
Stopped == <<"stopped", 0>>
Tasks == QTasks \cup LTasks \cup FTasks \cup {InitTask}

Spawn(t) == [kind |-> "spawn", task |-> t]
Step(t) == [kind |-> "step", task |-> t]
Cancel(t) == [kind |-> "cancel", task |-> t]
Stop == [kind |-> "stop", task |-> Idle]

\* Server script paths, as character sequences: "s.py", "s.js", "s.pyc",
\* "py", "s.txt" and the empty path.
DotPy == <<".", "p", "y">>
DotJs == <<".", "j", "s">>
NoScript == <<"?">>
Paths == {<<"s">> \o DotPy, <<"s">> \o DotJs, <<"s">> \o DotPy \o <<"c">>,
          <<"p", "y">>, <<"s", ".", "t", "x", "t">>, <<>>}

\* Content blocks of a model response and the responses the model may give.
TextBlock == [type |-> "text", text |-> "T"]
ToolUse == [type |-> "tool_use", name |-> "U"]
Blocks == {TextBlock, ToolUse}
Responses == UNION {[1..n -> Blocks] : n \in 0..MaxBlocks}
HasToolUse(content) == \E i \in 1..Len(content) : content[i].type = "tool_use"

\* Session operations (list_tools, call_tool) in flight: request sent, no
\* response yet, coroutine not yet cancelled.
InFlight == {t \in Tasks \ {InitTask} : op[t] = "sent"}

Init ==
    /\ session = 0 /\ stdio = 0 /\ exit_stack = 0 /\ sm_loop = "none"
    /\ lock = Free
    /\ entered = [n \in 1..MaxConnects |-> <<>>]
    /\ ready = <<>> /\ running = Idle
    /\ mainpc = "start" /\ status = "Disconnected" /\ script = NoScript
    /\ connects = 0 /\ initpc = "none" /\ initres = "none"
    /\ qpc = [q \in QTasks |-> "none"]
    /\ messages = [q \in QTasks |-> <<>>]
    /\ final_text = [q \in QTasks |-> <<>>]
    /\ resp = [q \in QTasks |-> <<>>]
    /\ idx = [q \in QTasks |-> 0]
    /\ last = [q \in QTasks |-> <<>>]
    /\ err = [q \in QTasks |-> "none"]
    /\ modelCalls = [q \in QTasks |-> 0]
    /\ toolCalls = [q \in QTasks |-> 0]
    /\ calls = [q \in QTasks |-> <<>>]
    /\ lpc = [l \in LTasks |-> "none"]
    /\ fpc = [f \in FTasks |-> "idle"]
    /\ fut = [f \in FTasks |-> "none"]
    /\ ftask = [f \in FTasks |-> "none"]
    /\ cancelled = [f \in FTasks |-> FALSE]
    /\ op = [t \in Tasks |-> "none"]
    /\ closepc = "none" /\ closeres = "none" /\ closes = 0
    /\ exiting = "none" /\ stopping = FALSE
    /\ released = [n \in 1..MaxConnects |-> <<>>]
    /\ ranOn = {}

(***************************************************************************)
(* main() and MCPClient.connect_to_server                                  *)
(***************************************************************************)
\* A test that accepts the suffix anywhere in s (`suffix in s`).
EndsWithAnywhere(s, suffix) ==
    \E k \in 1..Len(s) :
        /\ k + Len(suffix) - 1 <= Len(s)
        /\ SubSeq(s, k, k + Len(suffix) - 1) = suffix

\* str.endswith: the last Len(suffix) characters of s are suffix.
EndsWith(s, suffix) ==
    /\ Len(s) >= Len(suffix)
    /\ SubSeq(s, Len(s) - Len(suffix) + 1, Len(s)) = suffix

\* lines 122-124: is_python or is_js
Accepted(path) == EndsWith(path, DotPy) \/ EndsWith(path, DotJs)

\* MCPClient.loop: the worker loop main() created (lines 65, 286-290).
ClientLoop == "worker"

\* connect_to_server, lines 122-136: the extension check, then the
\* initialize_session coroutine is handed to the worker loop.
ConnectToServer(path) ==
    /\ mainpc = "start"
    /\ script' = path
    /\ IF Accepted(path)
       THEN /\ ready' = Append(ready, Spawn(InitTask))
            /\ connects' = connects + 1
            /\ initpc' = "spawned"
            /\ mainpc' = "connecting"
       ELSE /\ mainpc' = "failed"
            /\ UNCHANGED <<ready, connects, initpc>>
    /\ UNCHANGED <<smvars, closevars, ranOn, lock, running, status, initres, qvars, fvars, op>>

\* connect_to_server, lines 138-139: the wrapped future completes; an
\* exception of initialize_session propagates out of main().
ConnectReturns ==
    /\ mainpc = "connecting"
    /\ initres # "none"
    /\ IF initres = "ok"
       THEN mainpc' = "mainloop" /\ status' = "Connected"
       ELSE mainpc' = "failed" /\ UNCHANGED status
    /\ UNCHANGED script
    /\ UNCHANGED <<smvars, closevars, ranOn, lock, loopvars, initvars, qvars, fvars, op>>

(***************************************************************************)
(* SessionManager.initialize_session, run as a task of the worker loop.    *)
(* Each await suspends the task; the awaited I/O completes or fails.       *)
(***************************************************************************)
InitAtHead == running = Idle /\ ready # <<>> /\ Head(ready) = Step(InitTask)

\* line 34 and the start of line 35
InitOpenStdio ==
    /\ InitAtHead /\ initpc = "start"
    /\ exit_stack' = connects
    /\ initpc' = "stdio"
    /\ op' = [op EXCEPT ![InitTask] = "sent"]
    /\ ready' = Tail(ready)
    /\ UNCHANGED <<session, stdio, sm_loop, entered, lock, running, mainvars,
                   connects, initres, qvars, fvars, closevars, ranOn>>

\* The awaited I/O of initialize_session completes or raises.
InitIO(outcome) ==
    /\ op[InitTask] = "sent"
    /\ op' = [op EXCEPT ![InitTask] = outcome]
    /\ ready' = Append(ready, Step(InitTask))
    /\ UNCHANGED <<smvars, closevars, ranOn, lock, running, mainvars, initvars, qvars, fvars>>

\* An await of initialize_session raised: the coroutine ends with the exception.
InitFails ==
    /\ InitAtHead /\ op[InitTask] = "err"
    /\ initpc \in {"stdio", "session", "initialize"}
    /\ initpc' = "done"
    /\ initres' = "error"
    /\ op' = [op EXCEPT ![InitTask] = "none"]
    /\ ready' = Tail(ready)
    /\ UNCHANGED <<smvars, closevars, ranOn, lock, running, mainvars, connects, qvars, fvars>>

\* lines 35-37: the transport is entered on the stack and stored, the
\* ClientSession is being entered.
InitOpenSession ==
    /\ InitAtHead /\ initpc = "stdio" /\ op[InitTask] = "ok"
    /\ entered' = [entered EXCEPT ![exit_stack] = Append(@, "stdio")]
    /\ stdio' = exit_stack
    /\ initpc' = "session"
    /\ op' = [op EXCEPT ![InitTask] = "sent"]
    /\ ready' = Tail(ready)
    /\ UNCHANGED <<session, exit_stack, sm_loop, lock, running, mainvars,
                   connects, initres, qvars, fvars, closevars, ranOn>>

\* lines 37-39: the session is stored, the running loop recorded, and
\* session.initialize() awaited.
InitNegotiate ==
    /\ InitAtHead /\ initpc = "session" /\ op[InitTask] = "ok"
    /\ entered' = [entered EXCEPT ![exit_stack] = Append(@, "session")]
    /\ session' = exit_stack
    /\ sm_loop' = ClientLoop
    /\ initpc' = "initialize"
    /\ op' = [op EXCEPT ![InitTask] = "sent"]
    /\ ready' = Tail(ready)
    /\ UNCHANGED <<stdio, exit_stack, lock, running, mainvars, connects,
                   initres, qvars, fvars, closevars, ranOn>>

\* line 39 returned: initialize_session is complete.
InitDone ==
    /\ InitAtHead /\ initpc = "initialize" /\ op[InitTask] = "ok"
    /\ initpc' = "done"
    /\ initres' = "ok"
    /\ op' = [op EXCEPT ![InitTask] = "none"]
    /\ ready' = Tail(ready)
    /\ UNCHANGED <<smvars, closevars, ranOn, lock, running, mainvars, connects, qvars, fvars>>

\* A caller invokes initialize_session again on the worker loop, with no
\* close in between (the code has no guard against it).
Reconnect ==
    /\ initpc = "done"
    /\ mainpc \in {"mainloop", "failed"}
    /\ connects < MaxConnects
    /\ connects' = connects + 1
    /\ initpc' = "spawned"
    /\ initres' = "none"
    /\ ready' = Append(ready, Spawn(InitTask))
    /\ UNCHANGED <<smvars, closevars, ranOn, lock, running, mainvars, qvars, fvars, op>>

\* A loop that would run every marshaled coroutine on the caller's own loop.
MarshalTargetCaller(t) == IF t \in FTasks THEN "foreign" ELSE "worker"

\* line 45: run_coroutine_threadsafe(coroutine, self._loop) - the loop the
\* marshaled coroutine of caller t executes on.
MarshalTarget(t) == sm_loop

(***************************************************************************)
(* The worker loop (run_worker_loop, loop.run_forever): callbacks run in   *)
(* FIFO order, one at a time.                                              *)
(***************************************************************************)
\* asyncio.create_task / ensure_future: the new task's first step is
\* scheduled.  For a marshaled coroutine whose concurrent future is already
\* cancelled, chaining the futures schedules Task.cancel right behind it.
LoopSpawn ==
    /\ running = Idle /\ ready # <<>> /\ Head(ready).kind = "spawn"
    /\ LET t == Head(ready).task IN
       /\ ready' = Tail(ready) \o
                   (IF t \in FTasks /\ fut[t] = "cancelled"
                    THEN <<Step(t), Cancel(t)>> ELSE <<Step(t)>>)
       /\ initpc' = IF t = InitTask THEN "start" ELSE initpc
       /\ qpc' = [q \in QTasks |-> IF q = t THEN "start" ELSE qpc[q]]
       /\ lpc' = [l \in LTasks |-> IF l = t THEN "start" ELSE lpc[l]]
       /\ ftask' = [f \in FTasks |-> IF f = t THEN "scheduled" ELSE ftask[f]]
       /\ closepc' = IF t = CloseTask THEN "start" ELSE closepc
    /\ UNCHANGED <<smvars, closeres, closes, exiting, stopping, released,
                   ranOn, lock, running, mainvars, connects, initres,
                   messages, final_text, resp, idx, last, err, modelCalls,
                   toolCalls, calls, fpc, fut, cancelled, op>>

\* Task.cancel() runs on the loop (scheduled by future.cancel() of the
\* foreign caller): a finished task ignores it; a task suspended in its
\* operation is woken with CancelledError; a task whose wake-up is already
\* scheduled gets the CancelledError at that step.
LoopCancel ==
    /\ running = Idle /\ ready # <<>> /\ Head(ready).kind = "cancel"
    /\ LET t == Head(ready).task IN
       IF ftask[t] = "done"
       THEN /\ ready' = Tail(ready)
            /\ UNCHANGED cancelled
       ELSE /\ cancelled' = [cancelled EXCEPT ![t] = TRUE]
            /\ ready' = IF op[t] = "sent" THEN Append(Tail(ready), Step(t))
                        ELSE Tail(ready)
    /\ UNCHANGED <<smvars, closevars, ranOn, lock, running, mainvars, initvars, qvars,
                   lpc, fpc, fut, ftask, op>>

\* The loop resumes a coroutine that calls run_in_session or get_session
\* itself: it runs until it suspends, returns, or blocks the loop thread on
\* SessionManager._lock.
LoopStepT(q) ==
    /\ running = Idle /\ ready # <<>> /\ Head(ready) = Step(q)
    /\ running' = q
    /\ ready' = Tail(ready)
    /\ UNCHANGED <<smvars, closevars, ranOn, lock, mainvars, initvars, qvars, fvars, op>>

\* The loop resumes a marshaled coroutine (session.call_tool handed over by
\* run_coroutine_threadsafe): it starts its operation, is cancelled, or
\* finishes and sets the still pending concurrent future.
LoopStepF(f) ==
    /\ running = Idle /\ ready # <<>> /\ Head(ready) = Step(f)
    /\ ready' = Tail(ready)
    /\ IF cancelled[f]
       THEN /\ ftask' = [ftask EXCEPT ![f] = "done"]
            /\ op' = [op EXCEPT ![f] = "none"]
            /\ cancelled' = [cancelled EXCEPT ![f] = FALSE]
            /\ UNCHANGED <<fut, ranOn>>
       ELSE IF ftask[f] = "scheduled"
       THEN /\ ftask' = [ftask EXCEPT ![f] = "awaiting"]
            /\ op' = [op EXCEPT ![f] = "sent"]
            /\ ranOn' = ranOn \cup {MarshalTarget(f)}
            /\ UNCHANGED <<fut, cancelled>>
       ELSE /\ ftask' = [ftask EXCEPT ![f] = "done"]
            /\ fut' = [fut EXCEPT ![f] = IF @ = "pending" THEN op[f] ELSE @]
            /\ op' = [op EXCEPT ![f] = "none"]
            /\ UNCHANGED <<cancelled, ranOn>>
    /\ UNCHANGED <<smvars, closevars, lock, running, mainvars, initvars,
                   qvars, lpc, fpc>>

\* The MCP server answers an operation in flight, or the operation fails:
\* the awaiting task is scheduled to resume.
OpRespond(t, outcome) ==
    /\ t \in InFlight
    /\ t \in FTasks => ~cancelled[t]
    /\ op' = [op EXCEPT ![t] = outcome]
    /\ ready' = Append(ready, Step(t))
    /\ UNCHANGED <<smvars, closevars, ranOn, lock, running, mainvars, initvars, qvars, fvars>>

(***************************************************************************)
(* SessionManager.run_in_session / get_session                             *)
(***************************************************************************)
\* asyncio.get_running_loop() of a calling context.
LoopOf(t) == IF t \in FTasks THEN "foreign" ELSE "worker"

\* line 43, negated: the caller runs on the owning loop.
OnOwningLoop(t) == sm_loop = LoopOf(t)

\* `with self._lock:` can be entered (line 42, line 57).
CanAcquire == lock = Free

\* A with block that does not release the lock when left by an exception.
ReleasedNever(t) == lock

\* The lock as left when the with block of line 42 is exited by t.
Released(t) == IF lock = t THEN Free ELSE lock

\* A task of the worker loop stands at `with self._lock` while the lock is
\* held: the loop thread itself is blocked in Lock.acquire().
AtAcquire(t) ==
    IF t \in LTasks THEN lpc[t] = "start"
    ELSE \/ qpc[t] \in {"slept", "list_tools"}
         \/ qpc[t] = "dispatch" /\ idx[t] <= Len(resp[t])
LoopBlockedBy(t) == running = t /\ AtAcquire(t) /\ ~CanAcquire

\* lines 42-43, 52-54 on the owning loop: the lock is taken and the
\* coroutine awaited in place; the task suspends inside the with block.
AwaitInSession(t) ==
    /\ CanAcquire
    /\ OnOwningLoop(t)
    /\ lock' = t
    /\ op' = [op EXCEPT ![t] = "sent"]
    /\ ranOn' = ranOn \cup {LoopOf(t)}
    /\ running' = Idle

\* A coroutine is started on the owning loop (asyncio.create_task) that will
\* call run_in_session.
LoopCallerSpawn(i) ==
    /\ mainpc = "mainloop"
    /\ lpc[L(i)] = "none"
    /\ \A j \in 1..(i - 1) : lpc[L(j)] # "none"
    /\ lpc' = [lpc EXCEPT ![L(i)] = "spawned"]
    /\ ready' = Append(ready, Spawn(L(i)))
    /\ UNCHANGED <<smvars, closevars, ranOn, lock, running, mainvars, initvars, qvars, fpc,
                   fut, ftask, cancelled, op>>

\* lines 42-54: run_in_session(session.call_tool(...)) called on the owning
\* loop.
LoopCallerCall(l) ==
    /\ running = l /\ lpc[l] = "start"
    /\ AwaitInSession(l)
    /\ lpc' = [lpc EXCEPT ![l] = "awaiting"]
    /\ UNCHANGED <<smvars, closevars, ready, mainvars, initvars, qvars, fpc, fut, ftask,
                   cancelled>>

\* line 54 returns or raises; the with block of line 42 is exited.
LoopCallerDone(l) ==
    /\ running = l /\ lpc[l] = "awaiting" /\ op[l] \in {"ok", "err"}
    /\ lock' = Released(l)
    /\ op' = [op EXCEPT ![l] = "none"]
    /\ lpc' = [lpc EXCEPT ![l] = "done"]
    /\ running' = Idle
    /\ UNCHANGED <<smvars, closevars, ranOn, ready, mainvars, initvars, qvars, fpc, fut, ftask,
                   cancelled>>

\* lines 42-48, foreign branch: the coroutine is handed to the owning loop
\* and the caller's thread waits on the concurrent future, holding the lock.
ForeignCall(f) ==
    /\ mainpc = "mainloop"
    /\ fpc[f] = "idle"
    /\ \A g \in FTasks : g[2] < f[2] => fpc[g] # "idle"
    /\ CanAcquire
    /\ ~OnOwningLoop(f)
    /\ lock' = f
    /\ fut' = [fut EXCEPT ![f] = "pending"]
    /\ ready' = Append(ready, Spawn(f))
    /\ fpc' = [fpc EXCEPT ![f] = "waiting"]
    /\ UNCHANGED <<smvars, closevars, ranOn, running, mainvars, initvars, qvars, lpc, ftask,
                   cancelled, op>>

\* line 48 returns the result, or lines 49-51 re-raise the operation's error.
ForeignResult(f) ==
    /\ fpc[f] = "waiting"
    /\ fut[f] \in {"ok", "err"}
    /\ fpc' = [fpc EXCEPT ![f] = IF fut[f] = "ok" THEN "returned" ELSE "raised"]
    /\ lock' = Released(f)
    /\ UNCHANGED <<smvars, closevars, ranOn, loopvars, mainvars, initvars, qvars, lpc, fut,
                   ftask, cancelled, op>>

\* A timeout handler that also drops the session.
ForeignTimeoutCloses(f) ==
    /\ fpc[f] = "waiting"
    /\ fut[f] = "pending"
    /\ fut' = [fut EXCEPT ![f] = "cancelled"]
    /\ ready' = IF ftask[f] # "none" THEN Append(ready, Cancel(f)) ELSE ready
    /\ fpc' = [fpc EXCEPT ![f] = "timed_out"]
    /\ lock' = Released(f)
    /\ session' = 0
    /\ UNCHANGED <<stdio, exit_stack, sm_loop, entered, closevars, ranOn,
                   running, mainvars, initvars, qvars, lpc, ftask, cancelled, op>>

\* lines 48-51: no result within 5 s; future.cancel() cancels the concurrent
\* future and, once the futures are chained, schedules Task.cancel on the
\* owning loop; the TimeoutError is re-raised and the with block exited.
ForeignTimeout(f) ==
    /\ fpc[f] = "waiting"
    /\ fut[f] = "pending"
    /\ fut' = [fut EXCEPT ![f] = "cancelled"]
    /\ ready' = IF ftask[f] # "none" THEN Append(ready, Cancel(f)) ELSE ready
    /\ fpc' = [fpc EXCEPT ![f] = "timed_out"]
    /\ lock' = Released(f)
    /\ UNCHANGED <<smvars, closevars, ranOn, running, mainvars, initvars, qvars, lpc, ftask,
                   cancelled, op>>

(***************************************************************************)
(* MCPClient.send_message_button_handler / send_message / process_query    *)
(***************************************************************************)
ModelError == <<[type |-> "error"]>>
ModelOutcomes == Responses \cup {ModelError}

UserTurn(c) == [role |-> "user", content |-> c]
AssistantTurn(c) == [role |-> "assistant", content |-> c]

\* line 190: hasattr(content, 'text') and content.text
HasText(block) == "text" \in DOMAIN block /\ block.text # ""

\* lines 190-198: the turns appended to messages after a tool call.
ToolTurns(block, result) ==
    (IF HasText(block) THEN <<AssistantTurn(block.text)>> ELSE <<>>)
        \o <<UserTurn(result)>>

\* line 207: response.content[0].text; IndexError on an empty content list,
\* AttributeError on a block without a text attribute.
FirstText(content) ==
    IF content = <<>> THEN "IndexError"
    ELSE IF "text" \notin DOMAIN content[1] THEN "AttributeError"
    ELSE "ok"

\* A for loop that passes over every block without dispatching any.
NextToolNone(content, i) == Len(content) + 1

\* lines 177-180: the for loop runs from block i of content over the text
\* blocks up to the next tool_use block; NextTool is that block's index
\* (Len + 1 when the loop is exhausted), Texts what lines 178-179 append.
RECURSIVE NextTool(_, _)
NextTool(content, i) ==
    IF i > Len(content) \/ content[i].type = "tool_use" THEN i
    ELSE NextTool(content, i + 1)

RECURSIVE Texts(_, _)
Texts(content, i) ==
    IF i > Len(content) \/ content[i].type = "tool_use" THEN <<>>
    ELSE <<content[i].text>> \o Texts(content, i + 1)

\* line 213: the i-th press of Send hands a send_message coroutine to the
\* worker loop.
SendPress(i) ==
    /\ mainpc = "mainloop"
    /\ qpc[Q(i)] = "none"
    /\ \A j \in 1..(i - 1) : qpc[Q(j)] # "none"
    /\ qpc' = [qpc EXCEPT ![Q(i)] = "spawned"]
    /\ ready' = Append(ready, Spawn(Q(i)))
    /\ UNCHANGED <<smvars, closevars, ranOn, lock, running, mainvars, initvars, messages,
                   final_text, resp, idx, last, err, modelCalls, toolCalls, calls,
                   fvars, op>>

\* lines 216-222: an empty input returns at once, otherwise the task sleeps.
SendMessageStart(q, empty) ==
    /\ running = q /\ qpc[q] = "start"
    /\ qpc' = [qpc EXCEPT ![q] = IF empty THEN "done" ELSE "sleeping"]
    /\ running' = Idle
    /\ UNCHANGED <<smvars, closevars, ranOn, lock, ready, mainvars, initvars, messages,
                   final_text, resp, idx, last, err, modelCalls, toolCalls, calls,
                   fvars, op>>

\* asyncio.sleep(0.1) elapses.
SleepFires(q) ==
    /\ qpc[q] = "sleeping"
    /\ qpc' = [qpc EXCEPT ![q] = "slept"]
    /\ ready' = Append(ready, Step(q))
    /\ UNCHANGED <<smvars, closevars, ranOn, lock, running, mainvars, initvars, messages,
                   final_text, resp, idx, last, err, modelCalls, toolCalls, calls,
                   fvars, op>>

\* lines 143-150: get_session() takes and releases the lock; messages is
\* seeded with the query.
GetSession(q) ==
    /\ running = q /\ qpc[q] = "slept"
    /\ CanAcquire
    /\ messages' = [messages EXCEPT ![q] = <<UserTurn("query")>>]
    /\ qpc' = [qpc EXCEPT ![q] = "list_tools"]
    /\ UNCHANGED <<smvars, closevars, ranOn, lock, loopvars, mainvars, initvars, final_text,
                   resp, idx, last, err, modelCalls, toolCalls, calls, fvars, op>>

\* line 153: run_in_session(session.list_tools())
RunListTools(q) ==
    /\ running = q /\ qpc[q] = "list_tools"
    /\ AwaitInSession(q)
    /\ qpc' = [qpc EXCEPT ![q] = "await_list"]
    /\ UNCHANGED <<smvars, closevars, ready, mainvars, initvars, messages, final_text,
                   resp, idx, last, err, modelCalls, toolCalls, calls, fvars>>

\* process_query ends with an exception, which reaches line 235.
Raise(q, kind) ==
    /\ err' = [err EXCEPT ![q] = kind]
    /\ qpc' = [qpc EXCEPT ![q] = "raised"]
    /\ UNCHANGED running

\* A process_query that goes on to the model although list_tools raised.
DiscoveryFailedIgnored(q) == FALSE

\* lines 152-156: the bridged list_tools call raised; the except clause
\* prints and re-raises.
DiscoveryFailed(q) == op[q] = "err"

\* lines 153-180: list_tools returned or raised (lines 154-156 re-raise);
\* then the initial model call, which answers r or fails, and the for loop
\* up to the first tool_use block.
ListToolsDone(q, r) ==
    /\ running = q /\ qpc[q] = "await_list" /\ op[q] \in {"ok", "err"}
    /\ lock' = Released(q)
    /\ op' = [op EXCEPT ![q] = "none"]
    /\ IF DiscoveryFailed(q)
       THEN /\ Raise(q, "discovery")
            /\ UNCHANGED <<resp, idx, last, modelCalls, final_text>>
       ELSE /\ modelCalls' = [modelCalls EXCEPT ![q] = @ + 1]
            /\ IF r = ModelError
               THEN Raise(q, "model") /\ UNCHANGED <<resp, idx, last, final_text>>
               ELSE /\ resp' = [resp EXCEPT ![q] = r]
                    /\ last' = [last EXCEPT ![q] = r]
                    /\ final_text' = [final_text EXCEPT ![q] = Texts(r, 1)]
                    /\ idx' = [idx EXCEPT ![q] = NextTool(r, 1)]
                    /\ qpc' = [qpc EXCEPT ![q] = "dispatch"]
                    /\ UNCHANGED <<running, err>>
    /\ UNCHANGED <<smvars, closevars, ranOn, ready, mainvars, initvars, messages, toolCalls, calls,
                   fvars>>

\* lines 177, 180-183: the block the for loop stands at - always a block of
\* the response of the initial model call (response number 1).
BlockRef(q) == [response |-> 1, block |-> idx[q]]

\* lines 180-185: run_in_session(session.call_tool(tool_name, tool_args))
\* for the tool_use block the for loop stands at.
RunCallTool(q) ==
    /\ running = q /\ qpc[q] = "dispatch"
    /\ idx[q] <= Len(resp[q])
    /\ AwaitInSession(q)
    /\ qpc' = [qpc EXCEPT ![q] = "await_tool"]
    /\ toolCalls' = [toolCalls EXCEPT ![q] = @ + 1]
    /\ calls' = [calls EXCEPT ![q] = Append(@, BlockRef(q))]
    /\ UNCHANGED <<smvars, closevars, ready, mainvars, initvars, messages, final_text,
                   resp, idx, last, err, modelCalls, fvars>>

\* lines 185-207, 177-180: call_tool returned or raised (nothing catches
\* it); the result is appended, the follow-up model call answers r or
\* fails, and the for loop goes on over the blocks of the FIRST response.
ToolDone(q, r) ==
    /\ running = q /\ qpc[q] = "await_tool" /\ op[q] \in {"ok", "err"}
    /\ lock' = Released(q)
    /\ op' = [op EXCEPT ![q] = "none"]
    /\ IF op[q] = "err"
       THEN /\ Raise(q, "tool")
            /\ UNCHANGED <<messages, final_text, idx, last, modelCalls>>
       ELSE /\ messages' = [messages EXCEPT ![q] =
                                @ \o ToolTurns(resp[q][idx[q]], "result")]
            /\ modelCalls' = [modelCalls EXCEPT ![q] = @ + 1]
            /\ IF r = ModelError
               THEN /\ Raise(q, "model")
                    /\ final_text' = [final_text EXCEPT ![q] =
                                         Append(@, "[Calling tool]")]
                    /\ UNCHANGED <<idx, last>>
               ELSE /\ last' = [last EXCEPT ![q] = r]
                    /\ IF FirstText(r) = "ok"
                       THEN /\ final_text' = [final_text EXCEPT ![q] =
                                   Append(Append(@, "[Calling tool]"), r[1].text)
                                       \o Texts(resp[q], idx[q] + 1)]
                            /\ idx' = [idx EXCEPT ![q] = NextTool(resp[q], @ + 1)]
                            /\ qpc' = [qpc EXCEPT ![q] = "dispatch"]
                            /\ UNCHANGED <<running, err>>
                       ELSE /\ Raise(q, FirstText(r))
                            /\ final_text' = [final_text EXCEPT ![q] =
                                                 Append(@, "[Calling tool]")]
                            /\ UNCHANGED idx
    /\ UNCHANGED <<smvars, closevars, ranOn, ready, mainvars, initvars, resp, toolCalls, calls, fvars>>

\* line 209: the for loop is exhausted and the joined final_text returned.
Return(q) ==
    /\ running = q /\ qpc[q] = "dispatch"
    /\ idx[q] > Len(resp[q])
    /\ qpc' = [qpc EXCEPT ![q] = "returned"]
    /\ UNCHANGED <<smvars, closevars, ranOn, lock, loopvars, mainvars, initvars, messages,
                   final_text, resp, idx, last, err, modelCalls, toolCalls, calls,
                   fvars, op>>

\* lines 231-237: what send_message hands to display_message - the text
\* process_query returned, or only the message built from the exception.
DisplayMessage(q) ==
    IF qpc[q] = "returned"
    THEN [text |-> final_text[q], error |-> "none"]
    ELSE [text |-> <<>>, error |-> err[q]]

\* lines 231-237: send_message schedules the display of the answer or of the
\* error message and ends; the locals of the finished coroutines are gone.
SendMessageEnd(q) ==
    /\ running = q /\ qpc[q] \in {"returned", "raised"}
    /\ qpc' = [qpc EXCEPT ![q] = "done"]
    /\ messages' = [messages EXCEPT ![q] = <<>>]
    /\ final_text' = [final_text EXCEPT ![q] = <<>>]
    /\ resp' = [resp EXCEPT ![q] = <<>>]
    /\ idx' = [idx EXCEPT ![q] = 0]
    /\ last' = [last EXCEPT ![q] = <<>>]
    /\ err' = [err EXCEPT ![q] = "none"]
    /\ modelCalls' = [modelCalls EXCEPT ![q] = 0]
    /\ toolCalls' = [toolCalls EXCEPT ![q] = 0]
    /\ calls' = [calls EXCEPT ![q] = <<>>]
    /\ running' = Idle
    /\ UNCHANGED <<smvars, closevars, ranOn, lock, ready, mainvars, initvars, fvars, op>>

(***************************************************************************)
(* SessionManager.close and MCPClient.on_closing                           *)
(***************************************************************************)
\* A close that calls aclose() whether or not an exit stack exists.
TruthyAlways(x) == TRUE

\* line 60: `if self.exit_stack` - None is false, an AsyncExitStack true.
Truthy(x) == x # 0

\* AsyncExitStack keeps the entered contexts as a stack: aclose() pops the
\* context entered last and awaits its __aexit__, until none is left.
Top(stack) == stack[Len(stack)]
Pop(stack) == SubSeq(stack, 1, Len(stack) - 1)

CloseAtHead == running = Idle /\ ready # <<>> /\ Head(ready) = Step(CloseTask)

\* lines 59-61, one step of the close coroutine on the worker loop: without
\* an exit stack it returns at once (None.aclose would be an
\* AttributeError); otherwise the context just exited counts as released and
\* the next one is popped, until the stack is empty and close returns.
CloseStep ==
    /\ CloseAtHead /\ closepc \in {"start", "resumed"}
    /\ ready' = Tail(ready)
    /\ ranOn' = ranOn \cup {ClientLoop}
    /\ IF ~Truthy(exit_stack)
       THEN /\ closepc' = "done" /\ closeres' = "ok"
            /\ UNCHANGED <<entered, exiting, released>>
       ELSE IF exit_stack = 0
       THEN /\ closepc' = "done" /\ closeres' = "error"
            /\ UNCHANGED <<entered, exiting, released>>
       ELSE /\ released' = IF exiting = "none" THEN released
                           ELSE [released EXCEPT ![exit_stack] = Append(@, exiting)]
            /\ IF entered[exit_stack] = <<>>
               THEN /\ closepc' = "done" /\ closeres' = "ok"
                    /\ exiting' = "none"
                    /\ UNCHANGED entered
               ELSE /\ exiting' = Top(entered[exit_stack])
                    /\ entered' = [entered EXCEPT ![exit_stack] = Pop(@)]
                    /\ closepc' = "aexit"
                    /\ UNCHANGED closeres
    /\ UNCHANGED <<session, stdio, exit_stack, sm_loop, closes, stopping, lock,
                   running, mainvars, initvars, qvars, fvars, op>>

\* The __aexit__ that aclose() awaits completes (the server process ends,
\* the streams are closed): the close coroutine is scheduled to resume.
CloseIO ==
    /\ closepc = "aexit"
    /\ closepc' = "resumed"
    /\ ready' = Append(ready, Step(CloseTask))
    /\ UNCHANGED <<smvars, closeres, closes, exiting, stopping, released,
                   ranOn, lock, running, mainvars, initvars, qvars, fvars, op>>

\* A caller hands SessionManager.close() to the worker loop once the
\* previous close, if any, has returned.
CloseCall ==
    /\ closes < MaxCloses
    /\ closepc \in {"none", "done"}
    /\ initpc \in {"none", "done"}
    /\ mainpc \in {"mainloop", "failed"}
    /\ closes' = closes + 1
    /\ closepc' = "spawned"
    /\ closeres' = "none"
    /\ ready' = Append(ready, Spawn(CloseTask))
    /\ UNCHANGED <<smvars, exiting, stopping, released, ranOn, lock, running,
                   mainvars, initvars, qvars, fvars, op>>

\* on_closing, lines 248-253: the window is destroyed, close() handed to the
\* worker loop, and the GUI thread waits in future.result() - no timeout.
OnClosing ==
    /\ mainpc = "mainloop"
    /\ mainpc' = "closing"
    /\ closes' = closes + 1
    /\ closepc' = "spawned"
    /\ closeres' = "none"
    /\ ready' = Append(ready, Spawn(CloseTask))
    /\ UNCHANGED <<smvars, exiting, stopping, released, ranOn, lock, running,
                   status, script, initvars, qvars, fvars, op>>

\* on_closing, lines 253-261: future.result() returned or raised (the
\* exception is printed); loop.stop is handed to the worker loop and the GUI
\* thread waits in worker_thread.join().
OnClosingStop ==
    /\ mainpc = "closing"
    /\ closeres # "none"
    /\ mainpc' = "stopping"
    /\ ready' = Append(ready, Stop)
    /\ UNCHANGED <<smvars, closevars, ranOn, lock, running, status, script,
                   initvars, qvars, fvars, op>>

\* loop.stop() runs as a callback of the worker loop.
LoopStop ==
    /\ running = Idle /\ ready # <<>> /\ Head(ready) = Stop
    /\ stopping' = TRUE
    /\ ready' = Tail(ready)
    /\ UNCHANGED <<smvars, closepc, closeres, closes, exiting, released, ranOn,
                   lock, running, mainvars, initvars, qvars, fvars, op>>

\* run_worker_loop, line 265: run_forever returns at the end of an iteration
\* in which stop() ran - callbacks of that iteration may still run before -
\* and the worker thread exits.
LoopHalt ==
    /\ stopping /\ running = Idle
    /\ running' = Stopped
    /\ UNCHANGED <<smvars, closevars, ranOn, lock, ready, mainvars, initvars,
                   qvars, fvars, op>>

\* on_closing, line 261: worker_thread.join() returns.
OnClosingJoin ==
    /\ mainpc = "stopping"
    /\ running = Stopped
    /\ mainpc' = "exited"
    /\ UNCHANGED <<smvars, closevars, ranOn, lock, loopvars, status, script,
                   initvars, qvars, fvars, op>>

(***************************************************************************)
(* Specifications                                                          *)
(***************************************************************************)
ConnectNext ==
    \/ \E path \in Paths : ConnectToServer(path)
    \/ ConnectReturns
    \/ InitOpenStdio
    \/ \E o \in {"ok", "err"} : InitIO(o)
    \/ InitFails
    \/ InitOpenSession
    \/ InitNegotiate
    \/ InitDone
    \/ LoopSpawn

\* The window is closed: on_closing, close() and the end of the worker loop.
ShutdownNext ==
    \/ OnClosing
    \/ CloseStep
    \/ CloseIO
    \/ OnClosingStop
    \/ LoopStop
    \/ LoopHalt
    \/ OnClosingJoin

\* The program as main() wires it: the GUI thread presses Send, every
\* process_query runs on the worker loop.
Next ==
    \/ ConnectNext
    \/ \E q \in QTasks : LoopStepT(q)
    \/ \E q \in QTasks, o \in {"ok", "err"} : OpRespond(q, o)
    \/ \E i \in 1..NumQueries : SendPress(i)
    \/ \E q \in QTasks, e \in BOOLEAN : SendMessageStart(q, e)
    \/ \E q \in QTasks : SleepFires(q)
    \/ \E q \in QTasks : GetSession(q)
    \/ \E q \in QTasks : RunListTools(q)
    \/ \E q \in QTasks, r \in ModelOutcomes : ListToolsDone(q, r)
    \/ \E q \in QTasks : RunCallTool(q)
    \/ \E q \in QTasks, r \in ModelOutcomes : ToolDone(q, r)
    \/ \E q \in QTasks : Return(q)
    \/ \E q \in QTasks : SendMessageEnd(q)

Spec == Init /\ [][Next]_vars

\* The program with its window being closed at any moment of the main loop.
NextShutdown == Next \/ ShutdownNext

SpecShutdown == Init /\ [][NextShutdown]_vars

\* The SessionManager alone, with initialize_session invoked repeatedly.
NextConnect == ConnectNext \/ Reconnect

SpecConnect == Init /\ [][NextConnect]_vars

\* The SessionManager alone, with close invoked repeatedly, connected or not.
NextClose == ConnectNext \/ CloseCall \/ CloseStep \/ CloseIO

SpecClose == Init /\ [][NextClose]_vars

\* SessionManager.run_in_session under callers of both kinds: coroutines of
\* the owning loop and contexts of foreign loops.
NextBridge ==
    \/ ConnectNext
    \/ LoopCancel
    \/ \E l \in LTasks : LoopStepT(l)
    \/ \E f \in FTasks : LoopStepF(f)
    \/ \E t \in LTasks \cup FTasks, o \in {"ok", "err"} : OpRespond(t, o)
    \/ \E i \in 1..NumLoop : LoopCallerSpawn(i)
    \/ \E l \in LTasks : LoopCallerCall(l)
    \/ \E l \in LTasks : LoopCallerDone(l)
    \/ \E f \in FTasks : ForeignCall(f)
    \/ \E f \in FTasks : ForeignResult(f)
    \/ \E f \in FTasks : ForeignTimeout(f)
    \/ ShutdownNext

SpecBridge == Init /\ [][NextBridge]_vars

(***************************************************************************)
(* Claims                                                                  *)
(***************************************************************************)
\* C1 (SpecBridge): the Session never has two operations (list_tools /
\* call_tool) in flight at the same time, whatever the interleaving of
\* run_in_session calls, timed-out foreign calls included.
MutualExclusion == Cardinality(InFlight) <= 1

\* C2 (SpecBridge): a run_in_session invoked on the owning loop while another
\* run_in_session of that loop is suspended inside its operation never blocks
\* the loop's thread on the guard, so the loop can always make progress.
SameLoopReentrancy ==
    \A a, b \in LTasks :
        ~(lock = a /\ lpc[a] = "awaiting" /\ LoopBlockedBy(b))

\* C3 (Spec): with several process_query tasks on the worker loop, none blocks
\* for ever on the guard: no task stands in get_session or run_in_session
\* waiting for a lock whose holder can only go on once the loop runs again.
ConcurrentProcessSafe ==
    \A a, b \in QTasks :
        ~(lock = a /\ qpc[a] \in {"await_list", "await_tool"} /\ LoopBlockedBy(b))

\* C4 (SpecBridge): a foreign run_in_session call that timed out has raised
\* to its caller and no longer holds the guard, so the guard is free for, or
\* held by, a later caller.
TimeoutIsolation == \A f \in FTasks : fpc[f] = "timed_out" => lock # f

\* C4 witness: after a foreign call timed out, a later run_in_session of a
\* loop task holds the guard and has its operation under way.
TimeoutThenAcquired ==
    \E f \in FTasks, l \in LTasks :
        fpc[f] = "timed_out" /\ lock = l /\ lpc[l] = "awaiting"

\* The result turns of messages (index 1 is the query) and the tool_use
\* block of the iterated response that the n-th of them answers.
ResultTurns(q) == {i \in 2..Len(messages[q]) : messages[q][i].role = "user"}
NthTool(content, n) ==
    CHOOSE k \in 1..Len(content) :
        /\ content[k].type = "tool_use"
        /\ Cardinality({m \in 1..(k - 1) : content[m].type = "tool_use"}) = n - 1

\* C5 (Spec): when a response holds a text block T1 before a tool_use block
\* U1, then once U1's result is in messages, T1 stands in messages as an
\* assistant turn at a smaller index.
CausalOrdering ==
    \A q \in QTasks : \A i \in ResultTurns(q) :
        LET k == NthTool(resp[q], Cardinality({j \in ResultTurns(q) : j <= i}))
        IN  \A t \in 1..(k - 1) :
                resp[q][t].type = "text" =>
                    \E j \in 1..(i - 1) :
                        messages[q][j] = AssistantTurn(resp[q][t].text)

\* C6 (Spec): a failing tool invocation does not abort process_query: it is
\* never ended by the tool's exception (the failure becomes a tool-result
\* turn and the model is called again).
NonFatalToolFailure ==
    \A q \in QTasks : ~(qpc[q] = "raised" /\ err[q] = "tool")

\* C7 (Spec): process_query returns its accumulated text only after a model
\* response without tool_use block; after a response with one, the model is
\* consulted again.
ContinueOrStop ==
    \A q \in QTasks : qpc[q] = "returned" => ~HasToolUse(last[q])

\* line 209: what process_query returns carries a ToolLoopBoundExceeded
\* indicator.
BoundExceededIndicated(q) ==
    \E i \in 1..Len(final_text[q]) : final_text[q][i] = "ToolLoopBoundExceeded"

\* C8 (Spec): against a model that asks for a tool in every response,
\* process_query ends by the round bound and returns the accumulated text
\* with a ToolLoopBoundExceeded indicator.  (With at most two model calls,
\* resp and last are all the responses received.)
TerminationBound ==
    \A q \in QTasks :
        (/\ qpc[q] = "returned"
         /\ modelCalls[q] <= 2
         /\ HasToolUse(resp[q]) /\ HasToolUse(last[q]))
            => BoundExceededIndicated(q)

\* C9 (SpecConnect): once connected, a further initialize_session leaves the
\* session, the exit stack and the owning loop as they are.
ConnectAtMostOnce ==
    [][status = "Connected" =>
          /\ session' = session
          /\ exit_stack' = exit_stack
          /\ sm_loop' = sm_loop]_vars

\* C10 (Spec): after a failed initialize_session no Session is reachable:
\* session is None and no owning loop is recorded.
FailedConnectLeavesNothing ==
    initres = "error" => session = 0 /\ sm_loop = "none"

\* The contexts of exit stack n, wherever they stand: still registered,
\* being exited by aclose(), or released.
Contexts(n) ==
    entered[n] \o (IF exiting # "none" /\ exit_stack = n THEN <<exiting>> ELSE <<>>)
        \o released[n]

PartialProgressKept ==
    \A q \in QTasks :
        (qpc[q] = "raised" /\ err[q] = "model")
            => DisplayMessage(q).text = final_text[q]

\* C13 (Spec): the step in which process_query learns that list_tools
\* failed ends it with that failure: no model call and no tool invocation
\* has been made, and nothing of an answer is accumulated or displayed.
DiscoveryFailureAborts ==
    [][\A q \in QTasks :
          (qpc[q] = "await_list" /\ op[q] = "err" /\ qpc'[q] # "await_list") =>
              /\ qpc'[q] = "raised" /\ err'[q] = "discovery"
              /\ modelCalls'[q] = 0 /\ toolCalls'[q] = 0
              /\ final_text'[q] = <<>>
              /\ DisplayMessage(q)' = [text |-> <<>>, error |-> "discovery"]]_vars

\* C13 witness: list_tools failed and process_query has raised, its lock
\* released.
DiscoveryRaised ==
    \E q \in QTasks :
        qpc[q] = "raised" /\ err[q] = "discovery" /\ running = q /\ lock # q

\* The tails of a path: what it ends in.
Tails(path) == {SubSeq(path, k, Len(path)) : k \in 1..(Len(path) + 1)}

\* C14 (Spec): once connect_to_server was given a path that ends in neither
\* .py nor .js, it has raised with no initialize_session scheduled on the
\* worker loop: nothing is connected and the status is "Disconnected".
ExtensionCheckFirst ==
    (script # NoScript /\ DotPy \notin Tails(script) /\ DotJs \notin Tails(script)) =>
        /\ mainpc = "failed"
        /\ connects = 0 /\ initpc = "none" /\ ready = <<>>
        /\ session = 0 /\ exit_stack = 0 /\ sm_loop = "none"
        /\ status = "Disconnected"

\* C14 witness: "s.pyc", which holds .py but does not end in it, was
\* rejected.
PycRejected ==
    script = <<"s">> \o DotPy \o <<"c">> /\ mainpc = "failed" /\ connects = 0

\* The indices of the tool_use blocks of a response, in the order listed.
RECURSIVE ToolIndices(_, _)
ToolIndices(content, i) ==
    IF i > Len(content) THEN <<>>
    ELSE (IF content[i].type = "tool_use" THEN <<i>> ELSE <<>>)
             \o ToolIndices(content, i + 1)

\* The blocks of the n-th model response that call_tool was invoked for, in
\* the order of the invocations.
Dispatched(q, n) ==
    LET sel == SelectSeq(calls[q], LAMBDA c : c.response = n)
    IN  [i \in 1..Len(sel) |-> sel[i].block]

\* C15 (Spec): when process_query returns, the tool_use blocks of every
\* model response it received have been invoked in the order listed, each
\* once.  (With two model calls, resp and last are the responses received.)
ToolDispatchOrder ==
    \A q \in QTasks :
        qpc[q] = "returned" =>
            /\ Dispatched(q, 1) = ToolIndices(resp[q], 1)
            /\ modelCalls[q] = 2 => Dispatched(q, 2) = ToolIndices(last[q], 1)

\* C16 (SpecBridge): once connected, the owning loop recorded is the loop the
\* session was created on, and every Session operation and every close has
\* executed on that loop and on no other.
SingleOwnerExecution ==
    status = "Connected" => (sm_loop = ClientLoop /\ ranOn \subseteq {sm_loop})

\* C16 witness: a foreign call has returned, a call of a loop task is done
\* and the close of on_closing has returned, all executed on the owning loop.
AllRanOnOwner ==
    /\ \E f \in FTasks : fpc[f] = "returned"
    /\ \E l \in LTasks : lpc[l] = "done"
    /\ mainpc = "exited" /\ closeres = "ok"
    /\ ranOn = {sm_loop}

\* C17 (SpecShutdown): while close is executing (between its first step and
\* its return) no bridged operation is in flight on the Session.
CloseExclusive ==
    closepc \in {"aexit", "resumed"} => InFlight = {}

\* The Spawn callbacks of task t in the ready queue of the worker loop.
Spawns(queue, t) == Len(SelectSeq(queue, LAMBDA c : c = Spawn(t)))

\* C18 (SpecBridge): the step in which a run_in_session call ends without a
\* result (timeout or failure) raises it to the caller, leaves session,
\* transport, exit stack, their contexts and the owning loop as they are,
\* and hands no new coroutine to the loop.
TimeoutFrame ==
    [][/\ \A f \in FTasks :
             (fpc[f] = "waiting" /\ fut[f] # "ok" /\ fpc'[f] # "waiting") =>
                 /\ fpc'[f] \in {"timed_out", "raised"}
                 /\ UNCHANGED <<session, stdio, exit_stack, sm_loop, entered>>
                 /\ Spawns(ready', f) = Spawns(ready, f)
       /\ \A l \in LTasks :
             (lpc[l] = "awaiting" /\ op[l] = "err" /\ lpc'[l] # "awaiting") =>
                 /\ lpc'[l] = "done"
                 /\ UNCHANGED <<session, stdio, exit_stack, sm_loop, entered>>
                 /\ Spawns(ready', l) = Spawns(ready, l)]_vars

\* C18 witness: a foreign call timed out, its marshaled operation was
\* cancelled on the loop, and the session stands, not closed.
TimedOutSessionIntact ==
    \E f \in FTasks :
        /\ fpc[f] = "timed_out" /\ fut[f] = "cancelled" /\ ftask[f] = "done"
        /\ session = 1 /\ stdio = 1 /\ sm_loop = ClientLoop
        /\ entered[1] = <<"stdio", "session">> /\ closes = 0

\* The number of tool_use blocks of the first model response.
FirstToolCount(q) == Len(ToolIndices(resp[q], 1))

\* process_query has ended with every bridged call and model call returned.
EndedWithoutFailure(q) ==
    \/ qpc[q] = "returned"
    \/ qpc[q] = "raised" /\ err[q] \in {"AttributeError", "IndexError"}

ShutdownSequence ==
    /\ mainpc \in {"closing", "stopping"} => ENABLED NextShutdown
    /\ mainpc = "exited" =>
           closepc = "done" /\ closeres # "none" /\ stopping /\ running = Stopped

====
